---- MODULE Spec2Model ----
(***************************************************************************)
(* Model of ChartManager (src/unnamed/part_008, "ChartManager.js"): the    *)
(* trendline drawing / hover / drag controller layered on a host chart.    *)
(*                                                                         *)
(* Numbers.  A JavaScript number is an integer of the model or one of the  *)
(* two values NaN and Infinity; `undefined` and `null` are the values      *)
(* Undefined and JsNull.  Prices are counted in units of 1/PriceScale, so  *)
(* the source's 0.0001 is the integer PriceEps and its fallback price 1 is *)
(* PriceScale.  Floating-point rounding is not modelled: the hit tests     *)
(* compare exact rationals by cross-multiplication.                        *)
(*                                                                         *)
(* Host chart.  series[i] is the line style primitive i was created with, *)
(* "solid" for a trendline and "dashed" for a preview, or "absent".        *)
(* activeData / tempData are what .data() of the primitive referenced by   *)
(* activeLine / tempLine returns, and lineColor is the colour option of    *)
(* the primitive referenced by activeLine; the data and options of a       *)
(* primitive the controller holds no reference to are not observable by    *)
(* the code and are not kept.  A host setData call may throw (hostOk =     *)
(* FALSE) and then leaves the primitive's data as it was.                  *)
(***************************************************************************)
EXTENDS Integers, Sequences, FiniteSets

\* ------------------------------------------------------------------ bounds
MaxSeries == 2        \* primitives the host chart can hold at once
MaxTime   == 450      \* largest endpoint time a drag is followed to
MaxPrice  == 250000   \* largest endpoint price a drag is followed to
MaxTimers == 2        \* scheduled callbacks pending at once
MaxEnables == 3       \* setTrendlineMode(true) calls that are counted

\* ------------------------------------------------------- JavaScript values
NaN       == -999999999
Infinity  ==  999999999
Undefined == -999999998
JsNull    == -999999997
Null      == [null |-> TRUE]     \* a null object reference
NoSeries  == 0                   \* a null primitive reference

PriceScale == 10000              \* model units per 1.0 of price
PriceEps   == 1                  \* 0.0001
Px(n)      == n * PriceScale

hoverThreshold == 2
NowSec == 1000                   \* Date.now() / 1000: later than every bar

Abs(a) == IF a < 0 THEN -a ELSE a
IsNum(a) == a \notin {NaN, Infinity, Undefined, JsNull}
ToNumber(a) == IF a = JsNull THEN 0 ELSE IF a = Undefined THEN NaN ELSE a
JsAdd(a, b) == IF IsNum(ToNumber(a)) /\ IsNum(ToNumber(b))
               THEN ToNumber(a) + ToNumber(b) ELSE NaN
JsSub(a, b) == IF IsNum(ToNumber(a)) /\ IsNum(ToNumber(b))
               THEN ToNumber(a) - ToNumber(b) ELSE NaN
JsMul(a, b) == IF IsNum(ToNumber(a)) /\ IsNum(ToNumber(b))
               THEN ToNumber(a) * ToNumber(b) ELSE NaN
JsLe(a, b) == IsNum(a) /\ IsNum(b) /\ a <= b
JsMax(a, b) == IF a >= b THEN a ELSE b
JsMin(a, b) == IF a <= b THEN a ELSE b

\* ------------------------------------------------------------------ inputs
\* setData(bars): bar times
BarSets == { <<100, 200, 300, 400>> }
\* priceScale().getVisibleRange(): Null when the host gives none or throws
VisibleRanges == {Null, [from |-> 125000, to |-> 175000]}

\* A host event: param.time (Undefined when the cursor is off the plotted
\* bars), param.logical, whether param.point is set, and the price that
\* candleseries.coordinateToPrice(param.point.y) returns for it.
HostEvent(time, logical, hasPoint, price) ==
    [time |-> time, logical |-> logical, hasPoint |-> hasPoint,
     price |-> price]
At(time, price) == HostEvent(time, 0, TRUE, price)

\* Clicks land on the two points of the scenario line (150, 10) - (350, 20).
\* The cursor visits the midpoint of that line and its second point, so that
\* a drag moves an endpoint by (100, 5) and keeps the endpoints on the grid
\* (150, 10), (250, 15), (350, 20), (450, 25).  The other events are the
\* ones the validity gate and the early return reject; the one without a
\* time resolves to 100 + (-2) * 100.
ClickEvents ==
    { At(150, Px(10)), At(350, Px(20)) }
MoveEvents ==
    { At(250, Px(15)), At(350, Px(20)),
      HostEvent(Undefined, -2, TRUE, Px(10)),
      At(150, NaN), At(150, 0), At(150, Infinity),
      At(NaN, Px(15)), At(Infinity, Px(15)),
      HostEvent(Undefined, 0, FALSE, Undefined) }

VARIABLES
    \* ChartManager fields
    xspan, klines, startPoint, isUpdatingLine, isHovered, isDragging,
    dragStartPoint, dragStartLineData, lastCrosshairPosition, selectedPoint,
    activeLine, tempLine, trendlineMode,
    \* host chart and DOM element
    \* (cursor: the cursor shown over the element, "default" when unset)
    series, activeData, tempData, lineColor, chartOptions, cursor,
    \* the last handler run, the host and callback calls it made, in order,
    \* and how it returned: "undefined" at its end, "return@n" from the early
    \* return on source line n, "true" / "false", or "throws"
    calls, ret, handler,
    \* the callbacks that setTimeout calls have scheduled and that have not
    \* run yet, and the numbers of setTrendlineMode(true) calls and of
    \* onTrendlineComplete callbacks so far; each is followed only by the
    \* specification that is about it and is 0 in the others
    timers, enables, completions

ctl == <<xspan, klines, startPoint, isUpdatingLine, isHovered, isDragging,
         dragStartPoint, dragStartLineData, lastCrosshairPosition,
         selectedPoint, activeLine, tempLine, trendlineMode>>
host == <<series, activeData, tempData, lineColor, chartOptions, cursor>>
hist == <<timers, enables, completions>>
vars == <<ctl, host, calls, ret, handler, hist>>
\* a step of a specification that does not follow hist
Steady == UNCHANGED hist

Init ==
    /\ xspan = JsNull
    /\ klines = <<>>
    /\ startPoint = Null
    /\ isUpdatingLine = FALSE
    /\ isHovered = FALSE
    /\ isDragging = FALSE
    /\ dragStartPoint = Null
    /\ dragStartLineData = Null
    /\ lastCrosshairPosition = Null
    /\ selectedPoint = JsNull
    /\ activeLine = NoSeries
    /\ tempLine = NoSeries
    /\ trendlineMode = FALSE
    /\ series = [i \in 1..MaxSeries |-> "absent"]
    /\ activeData = <<>>
    /\ tempData = <<>>
    /\ lineColor = "dodgerblue"
    /\ chartOptions = [handleScroll |-> TRUE, handleScale |-> TRUE]
    /\ cursor = "default"
    /\ calls = <<>>
    /\ ret = "undefined"
    /\ handler = "constructor"
    /\ timers = 0 /\ enables = 0 /\ completions = 0


\* ------------------------------------------------------ validation helpers
isValidTime(time) ==
    time \notin {Undefined, JsNull} /\ time # NaN /\ time # Infinity /\ time > 0

\* isValidPrice with `>= 0` for `> 0`
isValidPrice_acceptsZero(price) ==
    price \notin {Undefined, JsNull} /\ price # NaN /\ price # Infinity /\ price >= 0

isValidPrice(price) ==
    price \notin {Undefined, JsNull} /\ price # NaN /\ price # Infinity /\ price > 0

\* isValidLineData without the test of the time order
isValidLineData_anyOrder(lineData) ==
    /\ lineData # Null
    /\ Len(lineData) >= 2
    /\ \A i \in 1..Len(lineData) :
          isValidTime(lineData[i].time) /\ isValidPrice(lineData[i].value)

isValidLineData(lineData) ==
    /\ lineData # Null
    /\ Len(lineData) >= 2
    /\ \A i \in 1..Len(lineData) :
          isValidTime(lineData[i].time) /\ isValidPrice(lineData[i].value)
    /\ \A i \in 2..Len(lineData) : ~ (lineData[i].time <= lineData[i-1].time)

\* this.klines?.[0]?.time
FirstBarTime == IF Len(klines) > 0 THEN klines[1] ELSE Undefined

\* param.time ?? (this.klines?.[0]?.time + param.logical * this.xspan)
ResolveTime(param) ==
    IF param.time \notin {Undefined, JsNull}
    THEN param.time
    ELSE JsAdd(FirstBarTime, JsMul(param.logical, xspan))

\* clampTime without the fallback to the current time
clampTime_withoutNow(time) ==
    IF ~ isValidTime(time) THEN FirstBarTime ELSE time

clampTime(time) ==
    IF ~ isValidTime(time)
    THEN (IF FirstBarTime \notin {Undefined, NaN, 0} THEN FirstBarTime ELSE NowSec)
    ELSE time

\* visibleRange: Null when priceScale().getVisibleRange() yields nothing or
\* throws; (max - min) * 0.5 is exact for the ranges of VisibleRanges
clampPrice(price, visibleRange) ==
    IF ~ isValidPrice(price) THEN PriceScale
    ELSE IF visibleRange # Null
         THEN LET minPrice == visibleRange.from
                  maxPrice == visibleRange.to
                  buffer   == (maxPrice - minPrice) \div 2
              IN  JsMax(minPrice - buffer, JsMin(maxPrice + buffer, price))
         ELSE JsMax(PriceEps, price)

\* ------------------------------------------------------------- hit testing
\* isNearEndpoint(pt, index) of isLineHovered, without its assignment
isNearEndpoint(xTs, yPrice, pt) ==
    LET timeDiff      == Abs(JsSub(xTs, pt.time))
        timeThreshold == JsMul(xspan, 5)
    IN  /\ IsNum(pt.time) /\ IsNum(pt.value)
        /\ JsLe(timeDiff, timeThreshold)
        \* priceDiff <= pt.value * hoverThreshold / 100
        /\ 100 * Abs(yPrice - pt.value) <= pt.value * hoverThreshold

\* isNearSegment without the test of the cursor time against the line's
\* time range
isNearSegment_anyTime(xTs, yPrice, point1, point2) ==
    /\ IsNum(point1.time) /\ IsNum(point2.time)
    /\ IsNum(point1.value) /\ IsNum(point2.value)
    /\ LET dt == point2.time - point1.time
           dv == point2.value - point1.value
           n  == point1.value * dt + dv * (xTs - point1.time)
       IN  /\ dt # 0
           /\ Abs(yPrice * dt - n) <=
                ((IF dt > 0 THEN n ELSE -n) * hoverThreshold) \div 100

\* the segment test of isLineHovered: with dt = point2.time - point1.time # 0
\* estimatedY = n / dt for n = point1.value * dt + dv * (xTs - point1.time);
\* a zero dt gives slope * 0 = NaN and every comparison with it is false
isNearSegment(xTs, yPrice, point1, point2) ==
    /\ IsNum(point1.time) /\ IsNum(point2.time)
    /\ IsNum(point1.value) /\ IsNum(point2.value)
    /\ xTs >= JsMin(point1.time, point2.time)
    /\ xTs <= JsMax(point1.time, point2.time)
    /\ LET dt == point2.time - point1.time
           dv == point2.value - point1.value
           n  == point1.value * dt + dv * (xTs - point1.time)
       IN  /\ dt # 0
           \* |yPrice - n/dt| <= (n/dt) * hoverThreshold / 100, times |dt|;
           \* the left side is an integer, so the right side may be floored
           /\ Abs(yPrice * dt - n) <=
                ((IF dt > 0 THEN n ELSE -n) * hoverThreshold) \div 100

\* isLineHovered without `if (this.isDragging) return true`
isLineHovered_testsWhileDragging(xTs, yPrice, point1, point2) ==
    IF isNearEndpoint(xTs, yPrice, point1)
    THEN [hovered |-> TRUE, selectedPoint |-> 0]
    ELSE IF isNearEndpoint(xTs, yPrice, point2)
    THEN [hovered |-> TRUE, selectedPoint |-> 1]
    ELSE [hovered |-> isNearSegment(xTs, yPrice, point1, point2),
          selectedPoint |-> JsNull]

\* isLineHovered testing endpoint 1 before endpoint 0
isLineHovered_lastFirst(xTs, yPrice, point1, point2) ==
    IF isDragging THEN [hovered |-> TRUE, selectedPoint |-> selectedPoint]
    ELSE IF isNearEndpoint(xTs, yPrice, point2)
    THEN [hovered |-> TRUE, selectedPoint |-> 1]
    ELSE IF isNearEndpoint(xTs, yPrice, point1)
    THEN [hovered |-> TRUE, selectedPoint |-> 0]
    ELSE [hovered |-> isNearSegment(xTs, yPrice, point1, point2),
          selectedPoint |-> JsNull]

\* returns the result and the value isLineHovered leaves in selectedPoint
isLineHovered(xTs, yPrice, point1, point2) ==
    IF isDragging THEN [hovered |-> TRUE, selectedPoint |-> selectedPoint]
    ELSE IF isNearEndpoint(xTs, yPrice, point1)
    THEN [hovered |-> TRUE, selectedPoint |-> 0]
    ELSE IF isNearEndpoint(xTs, yPrice, point2)
    THEN [hovered |-> TRUE, selectedPoint |-> 1]
    ELSE [hovered |-> isNearSegment(xTs, yPrice, point1, point2),
          selectedPoint |-> JsNull]

\* ------------------------------------------------------------ host helpers
FreeIds(s) == {i \in 1..MaxSeries : s[i] = "absent"}
\* chart.addLineSeries(): the primitive the host hands out
NewSeries(s) == CHOOSE i \in FreeIds(s) : \A j \in FreeIds(s) : i <= j
\* chart.removeSeries(series)
removeSeries(s, id) == [s EXCEPT ![id] = "absent"]
OnChart(kind) == {i \in 1..MaxSeries : series[i] = kind}
\* the host's answers to a setData call: it returns (TRUE) or throws (FALSE);
\* where the handler makes no such call there is nothing to answer
HostAnswers(called) == IF called THEN BOOLEAN ELSE {TRUE}
HostRanges(called) == IF called THEN VisibleRanges ELSE {Null}

\* ---------------------------------------------------------------- setData
setData(data) ==
    /\ handler' = "setData"
    /\ klines' = data
    /\ xspan' = IF Len(data) >= 3 THEN data[3] - data[2] ELSE Undefined
    /\ calls' = <<>>
    /\ ret' = "undefined"
    /\ UNCHANGED <<startPoint, isUpdatingLine, isHovered, isDragging,
                   dragStartPoint, dragStartLineData, lastCrosshairPosition,
                   selectedPoint, activeLine, tempLine, trendlineMode, host>>

\* -------------------------------------------------------- handleChartClick
\* firstClick that also invokes the completion callback
firstClick_callsBack(xTs, yPrice) ==
    /\ FreeIds(series) # {}
    /\ startPoint' = [time |-> xTs, price |-> yPrice]
    /\ tempLine' = NewSeries(series)
    /\ series' = [series EXCEPT ![NewSeries(series)] = "dashed"]
    /\ tempData' = <<>>
    /\ calls' = <<"chart.addLineSeries", "onTrendlineComplete">>
    /\ ret' = "undefined"
    /\ UNCHANGED <<xspan, klines, isUpdatingLine, isHovered, isDragging,
                   dragStartPoint, dragStartLineData, lastCrosshairPosition,
                   selectedPoint, activeLine, trendlineMode, activeData,
                   lineColor, chartOptions, cursor>>

\* first click: set the start point and create the temp line
firstClick(xTs, yPrice) ==
    /\ FreeIds(series) # {}
    /\ startPoint' = [time |-> xTs, price |-> yPrice]
    /\ tempLine' = NewSeries(series)
    /\ series' = [series EXCEPT ![NewSeries(series)] = "dashed"]
    /\ tempData' = <<>>
    /\ calls' = <<"chart.addLineSeries">>
    /\ ret' = "undefined"
    /\ UNCHANGED <<xspan, klines, isUpdatingLine, isHovered, isDragging,
                   dragStartPoint, dragStartLineData, lastCrosshairPosition,
                   selectedPoint, activeLine, trendlineMode, activeData,
                   lineColor, chartOptions, cursor>>

\* secondClick that leaves draw mode on after the callback
secondClick_keepsMode(xTs, yPrice, hostOk) ==
    LET s1 == IF tempLine # NoSeries
              THEN removeSeries(series, tempLine) ELSE series
        c1 == IF tempLine # NoSeries THEN <<"chart.removeSeries">> ELSE <<>>
        lineData == << [time |-> startPoint.time, value |-> startPoint.price],
                       [time |-> xTs, value |-> yPrice] >>
    IN
    /\ FreeIds(s1) # {}
    /\ tempLine' = NoSeries
    /\ tempData' = <<>>
    /\ activeLine' = NewSeries(s1)
    /\ series' = [s1 EXCEPT ![NewSeries(s1)] = "solid"]
    /\ lineColor' = "dodgerblue"
    /\ IF hostOk
       THEN /\ activeData' = lineData
            /\ startPoint' = Null
            /\ selectedPoint' = JsNull
            /\ trendlineMode' = trendlineMode
            /\ calls' = c1 \o <<"chart.addLineSeries", "activeLine.setData",
                                "onTrendlineComplete">>
            /\ ret' = "undefined"
       ELSE /\ activeData' = <<>>
            /\ calls' = c1 \o <<"chart.addLineSeries",
                                "activeLine.setData throws">>
            /\ ret' = "throws"
            /\ UNCHANGED <<startPoint, selectedPoint, trendlineMode>>
    /\ UNCHANGED <<xspan, klines, isUpdatingLine, isHovered, isDragging,
                   dragStartPoint, dragStartLineData, lastCrosshairPosition,
                   chartOptions, cursor>>

\* secondClick building the line from the start point twice
secondClick_repeatsStart(xTs, yPrice, hostOk) ==
    LET s1 == IF tempLine # NoSeries
              THEN removeSeries(series, tempLine) ELSE series
        c1 == IF tempLine # NoSeries THEN <<"chart.removeSeries">> ELSE <<>>
        lineData == << [time |-> startPoint.time, value |-> startPoint.price],
                       [time |-> xTs, value |-> startPoint.price] >>
    IN
    /\ FreeIds(s1) # {}
    /\ tempLine' = NoSeries
    /\ tempData' = <<>>
    /\ activeLine' = NewSeries(s1)
    /\ series' = [s1 EXCEPT ![NewSeries(s1)] = "solid"]
    /\ lineColor' = "dodgerblue"
    /\ IF hostOk
       THEN /\ activeData' = lineData
            /\ startPoint' = Null
            /\ selectedPoint' = JsNull
            /\ trendlineMode' = FALSE
            /\ calls' = c1 \o <<"chart.addLineSeries", "activeLine.setData",
                                "onTrendlineComplete">>
            /\ ret' = "undefined"
       ELSE /\ activeData' = <<>>
            /\ calls' = c1 \o <<"chart.addLineSeries",
                                "activeLine.setData throws">>
            /\ ret' = "throws"
            /\ UNCHANGED <<startPoint, selectedPoint, trendlineMode>>
    /\ UNCHANGED <<xspan, klines, isUpdatingLine, isHovered, isDragging,
                   dragStartPoint, dragStartLineData, lastCrosshairPosition,
                   chartOptions, cursor>>

\* second click: finalize the line
secondClick(xTs, yPrice, hostOk) ==
    LET s1 == IF tempLine # NoSeries
              THEN removeSeries(series, tempLine) ELSE series
        c1 == IF tempLine # NoSeries THEN <<"chart.removeSeries">> ELSE <<>>
        lineData == << [time |-> startPoint.time, value |-> startPoint.price],
                       [time |-> xTs, value |-> yPrice] >>
    IN
    /\ FreeIds(s1) # {}
    /\ tempLine' = NoSeries
    /\ tempData' = <<>>
    /\ activeLine' = NewSeries(s1)
    /\ series' = [s1 EXCEPT ![NewSeries(s1)] = "solid"]
    /\ lineColor' = "dodgerblue"
    /\ IF hostOk
       THEN /\ activeData' = lineData
            /\ startPoint' = Null
            /\ selectedPoint' = JsNull
            /\ trendlineMode' = FALSE
            /\ calls' = c1 \o <<"chart.addLineSeries", "activeLine.setData",
                                "onTrendlineComplete">>
            /\ ret' = "undefined"
       ELSE \* activeLine.setData throws out of the handler
            /\ activeData' = <<>>
            /\ calls' = c1 \o <<"chart.addLineSeries",
                                "activeLine.setData throws">>
            /\ ret' = "throws"
            /\ UNCHANGED <<startPoint, selectedPoint, trendlineMode>>
    /\ UNCHANGED <<xspan, klines, isUpdatingLine, isHovered, isDragging,
                   dragStartPoint, dragStartLineData, lastCrosshairPosition,
                   chartOptions, cursor>>

\* handleChartClick whose guard does not test isDragging
handleChartClick_ignoresDrag(param, price) ==
    LET xTs    == ResolveTime(param)
        yPrice == price
    IN
    /\ handler' = "handleChartClick"
    /\ IF ~ trendlineMode \/ isUpdatingLine
       THEN /\ calls' = <<>>
            /\ ret' = "return@41"
            /\ UNCHANGED <<ctl, host>>
       ELSE IF startPoint = Null
       THEN firstClick(xTs, yPrice)
       ELSE \E hostOk \in HostAnswers(TRUE) : secondClick(xTs, yPrice, hostOk)

\* handleChartClick whose guard does not test isUpdatingLine
handleChartClick_ignoresUpdate(param, price) ==
    LET xTs    == ResolveTime(param)
        yPrice == price
    IN
    /\ handler' = "handleChartClick"
    /\ IF ~ trendlineMode \/ isDragging
       THEN /\ calls' = <<>>
            /\ ret' = "return@41"
            /\ UNCHANGED <<ctl, host>>
       ELSE IF startPoint = Null
       THEN firstClick(xTs, yPrice)
       ELSE \E hostOk \in HostAnswers(TRUE) : secondClick(xTs, yPrice, hostOk)

handleChartClick(param, price) ==
    LET xTs    == ResolveTime(param)
        yPrice == price
    IN
    /\ handler' = "handleChartClick"
    /\ IF ~ trendlineMode \/ isUpdatingLine \/ isDragging
       THEN /\ calls' = <<>>
            /\ ret' = "return@41"
            /\ UNCHANGED <<ctl, host>>
       ELSE IF startPoint = Null
       THEN firstClick(xTs, yPrice)
       ELSE \E hostOk \in HostAnswers(TRUE) : secondClick(xTs, yPrice, hostOk)

\* -------------------------------------------------------- setTrendlineMode
\* setTrendlineMode that drops its reference to the temp line without
\* removing the primitive from the chart
setTrendlineMode_leavesPreview(enabled) ==
    /\ handler' = "setTrendlineMode"
    /\ trendlineMode' = enabled
    /\ ret' = "undefined"
    /\ calls' = <<>>
    /\ IF ~ enabled
       THEN /\ tempLine' = NoSeries
            /\ tempData' = <<>>
            /\ startPoint' = Null
       ELSE UNCHANGED <<tempLine, tempData, startPoint>>
    /\ UNCHANGED <<xspan, klines, isUpdatingLine, isHovered, isDragging,
                   dragStartPoint, dragStartLineData, lastCrosshairPosition,
                   selectedPoint, activeLine, activeData, lineColor,
                   chartOptions, cursor, series>>

setTrendlineMode(enabled) ==
    /\ handler' = "setTrendlineMode"
    /\ trendlineMode' = enabled
    /\ ret' = "undefined"
    /\ IF ~ enabled
       THEN /\ IF tempLine # NoSeries
               THEN /\ series' = removeSeries(series, tempLine)
                    /\ tempLine' = NoSeries
                    /\ tempData' = <<>>
                    /\ calls' = <<"chart.removeSeries">>
               ELSE /\ calls' = <<>>
                    /\ UNCHANGED <<series, tempLine, tempData>>
            /\ startPoint' = Null
       ELSE /\ calls' = <<>>
            /\ UNCHANGED <<series, tempLine, tempData, startPoint>>
    /\ UNCHANGED <<xspan, klines, isUpdatingLine, isHovered, isDragging,
                   dragStartPoint, dragStartLineData, lastCrosshairPosition,
                   selectedPoint, activeLine, activeData, lineColor,
                   chartOptions, cursor>>

\* ------------------------------------------------------ hover start / end
\* the fields startHover / endHover write, as a record
HoverState(h, c, o, col, k) ==
    [isHovered |-> h, cursor |-> c, chartOptions |-> o, lineColor |-> col,
     calls |-> k]

\* col: the colour of the active line's primitive before the call
startHover(col) ==
    HoverState(TRUE, "pointer",
               [handleScroll |-> FALSE, handleScale |-> FALSE],
               IF activeLine # NoSeries THEN "orange" ELSE col,
               <<"chart.applyOptions">> \o
               (IF activeLine # NoSeries
                THEN <<"activeLine.applyOptions">> ELSE <<>>))

\* endHover that leaves the pointer cursor
endHover_keepsCursor(col, line) ==
    HoverState(FALSE, "pointer",
               [handleScroll |-> TRUE, handleScale |-> TRUE],
               IF line # NoSeries THEN "dodgerblue" ELSE col,
               <<"chart.applyOptions">> \o
               (IF line # NoSeries
                THEN <<"activeLine.applyOptions">> ELSE <<>>))

\* line: the value of this.activeLine when endHover runs
endHover(col, line) ==
    HoverState(FALSE, "default",
               [handleScroll |-> TRUE, handleScale |-> TRUE],
               IF line # NoSeries THEN "dodgerblue" ELSE col,
               <<"chart.applyOptions">> \o
               (IF line # NoSeries
                THEN <<"activeLine.applyOptions">> ELSE <<>>))

\* handleHoverEffect: the hover fields and selectedPoint it leaves
handleHoverEffect(xTs, yPrice) ==
    LET same == [hov |-> HoverState(isHovered, cursor, chartOptions,
                                    lineColor, <<>>),
                 selectedPoint |-> selectedPoint]
    IN  IF activeLine = NoSeries THEN same
        ELSE IF Len(activeData) < 2 THEN same
        ELSE LET r == isLineHovered(xTs, yPrice, activeData[1], activeData[2])
             IN  [hov |-> IF r.hovered /\ ~ isHovered
                          THEN startHover(lineColor)
                          ELSE IF ~ r.hovered /\ isHovered /\ ~ isDragging
                          THEN endHover(lineColor, activeLine)
                          ELSE same.hov,
                  selectedPoint |-> r.selectedPoint]

\* ------------------------------------------------------------ preview line
\* TempLineData without the reordering by time
TempLineData_unordered(xTs, yPrice) ==
    << [time |-> startPoint.time, value |-> startPoint.price],
       [time |-> xTs, value |-> yPrice] >>

\* the line data updateTempLine builds
TempLineData(xTs, yPrice) ==
    IF JsLe(startPoint.time, xTs)
    THEN << [time |-> startPoint.time, value |-> startPoint.price],
            [time |-> xTs, value |-> yPrice] >>
    ELSE << [time |-> xTs, value |-> yPrice],
            [time |-> startPoint.time, value |-> startPoint.price] >>

\* updateTempLine: the temp line's data and the calls made
updateTempLine(xTs, yPrice, hostOk) ==
    IF tempLine = NoSeries \/ startPoint = Null
    THEN [data |-> tempData, calls |-> <<>>]
    ELSE IF ~ isValidTime(xTs) \/ ~ isValidPrice(yPrice)
    THEN [data |-> tempData, calls |-> <<>>]
    ELSE IF ~ isValidLineData(TempLineData(xTs, yPrice))
    THEN [data |-> tempData, calls |-> <<>>]
    ELSE IF hostOk
    THEN [data |-> TempLineData(xTs, yPrice), calls |-> <<"tempLine.setData">>]
    ELSE [data |-> tempData, calls |-> <<"tempLine.setData throws">>]

\* --------------------------------------------------------------- drag step
\* DragCandidates translating only the first point of a whole-line drag
DragCandidates_firstOnly(xTs, yPrice, sel) ==
    LET deltaX == xTs - dragStartPoint.x
        deltaY == yPrice - dragStartPoint.y
        moved(i) == (sel # JsNull /\ i = sel) \/ (sel = JsNull /\ i = 0)
    IN  [i \in 1..Len(dragStartLineData) |->
            [time  |-> JsAdd(dragStartLineData[i].time,
                             IF moved(i - 1) THEN deltaX ELSE 0),
             value |-> JsAdd(dragStartLineData[i].value,
                             IF moved(i - 1) THEN deltaY ELSE 0)]]

\* DragCandidates translating the line's current data, not the snapshot
DragCandidates_fromCurrent(xTs, yPrice, sel) ==
    LET deltaX == xTs - dragStartPoint.x
        deltaY == yPrice - dragStartPoint.y
        moved(i) == (sel # JsNull /\ i = sel) \/ sel = JsNull
    IN  [i \in 1..Len(activeData) |->
            [time  |-> JsAdd(activeData[i].time,
                             IF moved(i - 1) THEN deltaX ELSE 0),
             value |-> JsAdd(activeData[i].value,
                             IF moved(i - 1) THEN deltaY ELSE 0)]]

\* the translated points of handleCrosshairMove before clamping, for the
\* selectedPoint in force
DragCandidates(xTs, yPrice, sel) ==
    LET deltaX == xTs - dragStartPoint.x
        deltaY == yPrice - dragStartPoint.y
        moved(i) == (sel # JsNull /\ i = sel) \/ sel = JsNull
    IN  [i \in 1..Len(dragStartLineData) |->
            [time  |-> JsAdd(dragStartLineData[i].time,
                             IF moved(i - 1) THEN deltaX ELSE 0),
             value |-> JsAdd(dragStartLineData[i].value,
                             IF moved(i - 1) THEN deltaY ELSE 0)]]

\* newLineData of handleCrosshairMove
NewLineData(xTs, yPrice, sel, visibleRange) ==
    LET c == DragCandidates(xTs, yPrice, sel)
    IN  [i \in 1..Len(c) |->
            [time  |-> clampTime(c[i].time),
             value |-> clampPrice(c[i].value, visibleRange)]]

\* dragLine that catches the host's error without reverting the line
dragLine_noRevert(newCords, hostOk, revertOk) ==
    IF activeLine = NoSeries THEN [data |-> activeData, calls |-> <<>>]
    ELSE IF ~ isValidLineData(newCords)
    THEN [data |-> activeData, calls |-> <<>>]
    ELSE IF hostOk
    THEN [data |-> newCords, calls |-> <<"activeLine.setData">>]
    ELSE [data |-> activeData, calls |-> <<"activeLine.setData throws">>]

\* dragLine: the active line's data and the calls made
dragLine(newCords, hostOk, revertOk) ==
    IF activeLine = NoSeries THEN [data |-> activeData, calls |-> <<>>]
    ELSE IF ~ isValidLineData(newCords)
    THEN [data |-> activeData, calls |-> <<>>]
    ELSE IF hostOk
    THEN [data |-> newCords, calls |-> <<"activeLine.setData">>]
    ELSE IF dragStartLineData # Null /\ isValidLineData(dragStartLineData)
    THEN IF revertOk
         THEN [data |-> dragStartLineData,
               calls |-> <<"activeLine.setData throws", "activeLine.setData">>]
         ELSE [data |-> activeData,
               calls |-> <<"activeLine.setData throws",
                           "activeLine.setData throws">>]
    ELSE [data |-> activeData, calls |-> <<"activeLine.setData throws">>]


\* ------------------------------------------------------ handleCrosshairMove
\* handleCrosshairMove with `else` for `else if (!this.trendlineMode)`
handleCrosshairMove_hoversInDrawMode(param, price) ==
    LET xTs    == IF param.hasPoint THEN ResolveTime(param) ELSE Undefined
        yPrice == IF param.hasPoint THEN price ELSE Undefined
    IN
    /\ handler' = "handleCrosshairMove"
    /\ IF isUpdatingLine \/ ~ param.hasPoint
       THEN calls' = <<>> /\ ret' = "return@84" /\ UNCHANGED <<ctl, host>>
       ELSE IF ~ isValidTime(xTs) \/ ~ isValidPrice(yPrice)
       THEN calls' = <<>> /\ ret' = "return@91" /\ UNCHANGED <<ctl, host>>
       ELSE
       LET preview == trendlineMode /\ startPoint # Null /\ tempLine # NoSeries
           hv   == IF ~ preview
                   THEN handleHoverEffect(xTs, yPrice)
                   ELSE [hov |-> HoverState(isHovered, cursor, chartOptions,
                                            lineColor, <<>>),
                         selectedPoint |-> selectedPoint]
           dragging == isDragging /\ activeLine # NoSeries
       IN
       /\ \E tempOk \in HostAnswers(preview),
             dragOk \in HostAnswers(dragging),
             visibleRange \in HostRanges(dragging) :
           \E revertOk \in HostAnswers(~ dragOk) :
           LET tmp  == IF preview THEN updateTempLine(xTs, yPrice, tempOk)
                       ELSE [data |-> tempData, calls |-> <<>>]
               newLineData == NewLineData(xTs, yPrice, hv.selectedPoint,
                                          visibleRange)
               drg  == IF dragging /\ isValidLineData(newLineData)
                       THEN dragLine(newLineData, dragOk, revertOk)
                       ELSE [data |-> activeData, calls |-> <<>>]
           IN
           /\ tempData' = tmp.data
           /\ activeData' = drg.data
           /\ calls' = tmp.calls \o hv.hov.calls \o drg.calls
       /\ ret' = "undefined"
       /\ lastCrosshairPosition' = [x |-> xTs, y |-> yPrice]
       /\ isHovered' = hv.hov.isHovered
       /\ cursor' = hv.hov.cursor
       /\ chartOptions' = hv.hov.chartOptions
       /\ lineColor' = hv.hov.lineColor
       /\ selectedPoint' = hv.selectedPoint
       /\ UNCHANGED <<xspan, klines, startPoint, isUpdatingLine, isDragging,
                      dragStartPoint, dragStartLineData, activeLine, tempLine,
                      trendlineMode, series>>

handleCrosshairMove(param, price) ==
    LET xTs    == IF param.hasPoint THEN ResolveTime(param) ELSE Undefined
        yPrice == IF param.hasPoint THEN price ELSE Undefined
    IN
    /\ handler' = "handleCrosshairMove"
    /\ IF isUpdatingLine \/ ~ param.hasPoint
       THEN calls' = <<>> /\ ret' = "return@84" /\ UNCHANGED <<ctl, host>>
       ELSE IF ~ isValidTime(xTs) \/ ~ isValidPrice(yPrice)
       THEN calls' = <<>> /\ ret' = "return@91" /\ UNCHANGED <<ctl, host>>
       ELSE
       LET preview == trendlineMode /\ startPoint # Null /\ tempLine # NoSeries
           hv   == IF ~ preview /\ ~ trendlineMode
                   THEN handleHoverEffect(xTs, yPrice)
                   ELSE [hov |-> HoverState(isHovered, cursor, chartOptions,
                                            lineColor, <<>>),
                         selectedPoint |-> selectedPoint]
           dragging == isDragging /\ activeLine # NoSeries
       IN
       /\ \E tempOk \in HostAnswers(preview),
             dragOk \in HostAnswers(dragging),
             visibleRange \in HostRanges(dragging) :
           \E revertOk \in HostAnswers(~ dragOk) :
           LET tmp  == IF preview THEN updateTempLine(xTs, yPrice, tempOk)
                       ELSE [data |-> tempData, calls |-> <<>>]
               newLineData == NewLineData(xTs, yPrice, hv.selectedPoint,
                                          visibleRange)
               drg  == IF dragging /\ isValidLineData(newLineData)
                       THEN dragLine(newLineData, dragOk, revertOk)
                       ELSE [data |-> activeData, calls |-> <<>>]
           IN
           /\ tempData' = tmp.data
           /\ activeData' = drg.data
           /\ calls' = tmp.calls \o hv.hov.calls \o drg.calls
       /\ ret' = "undefined"
       /\ lastCrosshairPosition' = [x |-> xTs, y |-> yPrice]
       /\ isHovered' = hv.hov.isHovered
       /\ cursor' = hv.hov.cursor
       /\ chartOptions' = hv.hov.chartOptions
       /\ lineColor' = hv.hov.lineColor
       /\ selectedPoint' = hv.selectedPoint
       /\ UNCHANGED <<xspan, klines, startPoint, isUpdatingLine, isDragging,
                      dragStartPoint, dragStartLineData, activeLine, tempLine,
                      trendlineMode, series>>

\* ------------------------------------------------- mousedown and mouseup
startDrag(xTs, yPrice) ==
    IF activeLine = NoSeries
    THEN UNCHANGED <<isDragging, dragStartPoint, dragStartLineData>>
    ELSE /\ isDragging' = TRUE
         /\ dragStartPoint' = [x |-> xTs, y |-> yPrice]
         /\ dragStartLineData' = activeData

\* handleMouseDown whose guard does not test trendlineMode
handleMouseDown_ignoresMode ==
    /\ handler' = "handleMouseDown"
    /\ calls' = <<>>
    /\ IF lastCrosshairPosition = Null \/ ~ isHovered
       THEN /\ ret' = "return@140"
            /\ UNCHANGED <<isDragging, dragStartPoint, dragStartLineData>>
       ELSE /\ ret' = "undefined"
            /\ startDrag(lastCrosshairPosition.x, lastCrosshairPosition.y)
    /\ UNCHANGED <<xspan, klines, startPoint, isUpdatingLine, isHovered,
                   lastCrosshairPosition, selectedPoint, activeLine, tempLine,
                   trendlineMode, host>>

handleMouseDown ==
    /\ handler' = "handleMouseDown"
    /\ calls' = <<>>
    /\ IF lastCrosshairPosition = Null \/ ~ isHovered \/ trendlineMode
       THEN /\ ret' = "return@140"
            /\ UNCHANGED <<isDragging, dragStartPoint, dragStartLineData>>
       ELSE /\ ret' = "undefined"
            /\ startDrag(lastCrosshairPosition.x, lastCrosshairPosition.y)
    /\ UNCHANGED <<xspan, klines, startPoint, isUpdatingLine, isHovered,
                   lastCrosshairPosition, selectedPoint, activeLine, tempLine,
                   trendlineMode, host>>

\* endDrag that keeps the selected endpoint
endDrag_keepsSelection ==
    /\ isDragging' = FALSE
    /\ dragStartPoint' = Null
    /\ dragStartLineData' = Null
    /\ selectedPoint' = selectedPoint

endDrag ==
    /\ isDragging' = FALSE
    /\ dragStartPoint' = Null
    /\ dragStartLineData' = Null
    /\ selectedPoint' = JsNull

handleMouseUp ==
    /\ handler' = "handleMouseUp"
    /\ calls' = <<>>
    /\ ret' = "undefined"
    /\ endDrag
    /\ UNCHANGED <<xspan, klines, startPoint, isUpdatingLine, isHovered,
                   lastCrosshairPosition, activeLine, tempLine, trendlineMode,
                   host>>

\* ------------------------------------------------------ deleteSelectedLine
\* canDelete without the isDragging test
canDelete_ignoresDrag == activeLine # NoSeries /\ isHovered

\* the condition under which deleteSelectedLine deletes
canDelete == activeLine # NoSeries /\ isHovered /\ ~ isDragging

\* deleteSelectedLine calling fitContent itself, not through setTimeout
deleteSelectedLine_refitsAtOnce ==
    /\ handler' = "deleteSelectedLine"
    /\ IF canDelete
       THEN \* the removed primitive's colour is no longer kept
            LET eh == endHover("dodgerblue", NoSeries)
            IN  /\ series' = removeSeries(series, activeLine)
                /\ activeLine' = NoSeries
                /\ activeData' = <<>>
                /\ startPoint' = Null
                /\ selectedPoint' = JsNull
                /\ isHovered' = eh.isHovered
                /\ cursor' = eh.cursor
                /\ chartOptions' = eh.chartOptions
                /\ lineColor' = eh.lineColor
                /\ calls' = <<"chart.removeSeries">> \o eh.calls
                             \o <<"timeScale.fitContent">>
                /\ ret' = "true"
                /\ UNCHANGED <<xspan, klines, isUpdatingLine, isDragging,
                               dragStartPoint, dragStartLineData,
                               lastCrosshairPosition, tempLine, trendlineMode,
                               tempData>>
       ELSE /\ calls' = <<>>
            /\ ret' = "false"
            /\ UNCHANGED <<ctl, host>>

deleteSelectedLine ==
    /\ handler' = "deleteSelectedLine"
    /\ IF canDelete
       THEN \* the removed primitive's colour is no longer kept
            LET eh == endHover("dodgerblue", NoSeries)
            IN  /\ series' = removeSeries(series, activeLine)
                /\ activeLine' = NoSeries
                /\ activeData' = <<>>
                /\ startPoint' = Null
                /\ selectedPoint' = JsNull
                /\ isHovered' = eh.isHovered
                /\ cursor' = eh.cursor
                /\ chartOptions' = eh.chartOptions
                /\ lineColor' = eh.lineColor
                /\ calls' = <<"chart.removeSeries">> \o eh.calls
                             \o <<"setTimeout">>
                /\ ret' = "true"
                /\ UNCHANGED <<xspan, klines, isUpdatingLine, isDragging,
                               dragStartPoint, dragStartLineData,
                               lastCrosshairPosition, tempLine, trendlineMode,
                               tempData>>
       ELSE /\ calls' = <<>>
            /\ ret' = "false"
            /\ UNCHANGED <<ctl, host>>

\* ------------------------------------------------------ clearAllTrendlines
\* clearAllTrendlines that leaves isDragging as it is
clearAllTrendlines_keepsDragging ==
    LET s1 == IF activeLine # NoSeries
              THEN removeSeries(series, activeLine) ELSE series
        s2 == IF tempLine # NoSeries THEN removeSeries(s1, tempLine) ELSE s1
        eh == endHover("dodgerblue", NoSeries)
    IN
    /\ handler' = "clearAllTrendlines"
    /\ ret' = "undefined"
    /\ activeLine' = NoSeries
    /\ activeData' = <<>>
    /\ tempLine' = NoSeries
    /\ tempData' = <<>>
    /\ startPoint' = Null
    /\ selectedPoint' = JsNull
    /\ isHovered' = eh.isHovered
    /\ cursor' = eh.cursor
    /\ chartOptions' = eh.chartOptions
    /\ lineColor' = eh.lineColor
    /\ series' = s2
    /\ calls' = (IF activeLine # NoSeries
                 THEN <<"chart.removeSeries">> ELSE <<>>)
                \o (IF tempLine # NoSeries
                    THEN <<"chart.removeSeries">> ELSE <<>>)
                \o eh.calls
    /\ UNCHANGED <<xspan, klines, isUpdatingLine, isDragging, dragStartPoint,
                   dragStartLineData, lastCrosshairPosition, trendlineMode>>

\* clearAllTrendlines without `this.isHovered = false`
clearAllTrendlines_keepsHover ==
    LET s1 == IF activeLine # NoSeries
              THEN removeSeries(series, activeLine) ELSE series
        s2 == IF tempLine # NoSeries THEN removeSeries(s1, tempLine) ELSE s1
        eh == endHover("dodgerblue", NoSeries)
    IN
    /\ handler' = "clearAllTrendlines"
    /\ ret' = "undefined"
    /\ activeLine' = NoSeries
    /\ activeData' = <<>>
    /\ tempLine' = NoSeries
    /\ tempData' = <<>>
    /\ startPoint' = Null
    /\ selectedPoint' = JsNull
    /\ isDragging' = FALSE
    /\ isHovered' = isHovered
    /\ cursor' = eh.cursor
    /\ chartOptions' = eh.chartOptions
    /\ lineColor' = eh.lineColor
    /\ series' = s2
    /\ calls' = (IF activeLine # NoSeries
                 THEN <<"chart.removeSeries">> ELSE <<>>)
                \o (IF tempLine # NoSeries
                    THEN <<"chart.removeSeries">> ELSE <<>>)
                \o eh.calls
    /\ UNCHANGED <<xspan, klines, isUpdatingLine, dragStartPoint,
                   dragStartLineData, lastCrosshairPosition, trendlineMode>>

clearAllTrendlines ==
    LET s1 == IF activeLine # NoSeries
              THEN removeSeries(series, activeLine) ELSE series
        s2 == IF tempLine # NoSeries THEN removeSeries(s1, tempLine) ELSE s1
        eh == endHover("dodgerblue", NoSeries)
    IN
    /\ handler' = "clearAllTrendlines"
    /\ ret' = "undefined"
    /\ activeLine' = NoSeries
    /\ activeData' = <<>>
    /\ tempLine' = NoSeries
    /\ tempData' = <<>>
    /\ startPoint' = Null
    /\ selectedPoint' = JsNull
    /\ isDragging' = FALSE
    /\ isHovered' = eh.isHovered
    /\ cursor' = eh.cursor
    /\ chartOptions' = eh.chartOptions
    /\ lineColor' = eh.lineColor
    /\ series' = s2
    /\ calls' = (IF activeLine # NoSeries
                 THEN <<"chart.removeSeries">> ELSE <<>>)
                \o (IF tempLine # NoSeries
                    THEN <<"chart.removeSeries">> ELSE <<>>)
                \o eh.calls
    /\ UNCHANGED <<xspan, klines, isUpdatingLine, dragStartPoint,
                   dragStartLineData, lastCrosshairPosition, trendlineMode>>

\* ------------------------------------------------------- drags followed
\* The drags a specification follows: those whose translated endpoints stay
\* between the first bar and MaxTime and between 0 and MaxPrice.
InBounds(lineData) ==
    \A i \in 1..Len(lineData) :
        /\ IsNum(lineData[i].time) /\ IsNum(lineData[i].value)
        /\ klines[1] <= lineData[i].time /\ lineData[i].time <= MaxTime
        /\ 0 < lineData[i].value /\ lineData[i].value <= MaxPrice

\* the move event, when it reaches the drag step of handleCrosshairMove,
\* translates the snapshot within these bounds (during a drag the hover
\* detection leaves selectedPoint as it is)
Followed(param) ==
    ( /\ isDragging /\ activeLine # NoSeries
      /\ ~ isUpdatingLine /\ param.hasPoint
      /\ isValidTime(ResolveTime(param)) /\ isValidPrice(param.price) )
    => InBounds(DragCandidates(ResolveTime(param), param.price, selectedPoint))

\* ------------------------------------------------------------ specification
SetData == \E bars \in BarSets : setData(bars)

HandleChartClick ==
    \E param \in ClickEvents : handleChartClick(param, param.price)

HandleCrosshairMove ==
    \E param \in MoveEvents :
        Followed(param) /\ handleCrosshairMove(param, param.price)

SetTrendlineMode == \E enabled \in BOOLEAN : setTrendlineMode(enabled)

\* the page gives the controller its bars before it forwards any input
Loaded == klines # <<>>

Next ==
    \/ SetData /\ Steady
    \/ Loaded /\ HandleChartClick /\ Steady
    \/ Loaded /\ HandleCrosshairMove /\ Steady
    \/ Loaded /\ SetTrendlineMode /\ Steady
    \/ Loaded /\ handleMouseDown /\ Steady
    \/ Loaded /\ handleMouseUp /\ Steady
    \/ Loaded /\ deleteSelectedLine /\ Steady

Spec == Init /\ [][Next]_vars

\* ---------------------------------------- specification with a clear-all
\* The page may also clear every line.  The moves are the ones that pass the
\* validity gate; the others change nothing.
ValidMoveEvents ==
    {e \in MoveEvents :
        e.hasPoint /\ isValidTime(e.time) /\ isValidPrice(e.price)}

HandleValidMove ==
    \E param \in ValidMoveEvents :
        Followed(param) /\ handleCrosshairMove(param, param.price)

ClearNext ==
    \/ SetData /\ Steady
    \/ Loaded /\ HandleChartClick /\ Steady
    \/ Loaded /\ HandleValidMove /\ Steady
    \/ Loaded /\ SetTrendlineMode /\ Steady
    \/ Loaded /\ handleMouseDown /\ Steady
    \/ Loaded /\ handleMouseUp /\ Steady
    \/ Loaded /\ deleteSelectedLine /\ Steady
    \/ Loaded /\ clearAllTrendlines /\ Steady

ClearSpec == Init /\ [][ClearNext]_vars

\* ------------------------------------------- specification of the hit test
\* isLineHovered as the crosshair handler applies it: a line has just been
\* finalized by two clicks and the cursor moves over it in normal mode.
\* bar times with an xspan of 100 and of 10
HoverBarSets == { <<100, 200, 300, 400>>, <<100, 110, 120, 130>> }
\* the lines two clicks leave: the scenario line, the same line clicked right
\* to left, a flat line, a vertical line and a shallow line
HoverLines ==
    { << [time |-> 150, value |-> Px(10)], [time |-> 350, value |-> Px(20)] >>,
      << [time |-> 350, value |-> Px(20)], [time |-> 150, value |-> Px(10)] >>,
      << [time |-> 150, value |-> Px(10)], [time |-> 350, value |-> Px(10)] >>,
      << [time |-> 150, value |-> Px(10)], [time |-> 150, value |-> Px(20)] >>,
      << [time |-> 150, value |-> Px(10)], [time |-> 350, value |-> 101000] >> }
\* cursor positions: on and near the endpoints, on the 2 percent boundary
\* and just past it, on and off the segment, and outside the time range
HoverEvents ==
    { At(150, 100050), At(150, 102000), At(150, 102100), At(150, Px(15)),
      At(350, Px(20)), At(350, Px(10)),
      At(250, Px(15)), At(250, 153000), At(250, 153100), At(250, Px(10)),
      At(250, Px(20)), At(400, 225000), At(100, 75000) }

HoverInit ==
    /\ klines \in HoverBarSets
    /\ xspan = klines[3] - klines[2]
    /\ startPoint = Null
    /\ isUpdatingLine = FALSE
    /\ isHovered = FALSE
    /\ isDragging = FALSE
    /\ dragStartPoint = Null
    /\ dragStartLineData = Null
    /\ lastCrosshairPosition = Null
    /\ selectedPoint = JsNull
    /\ activeLine = 1
    /\ tempLine = NoSeries
    /\ trendlineMode = FALSE
    /\ series = [i \in 1..MaxSeries |-> IF i = 1 THEN "solid" ELSE "absent"]
    /\ activeData \in HoverLines
    /\ tempData = <<>>
    /\ lineColor = "dodgerblue"
    /\ chartOptions = [handleScroll |-> TRUE, handleScale |-> TRUE]
    /\ cursor = "default"
    /\ calls = <<"chart.removeSeries", "chart.addLineSeries",
                 "activeLine.setData", "onTrendlineComplete">>
    /\ ret = "undefined"
    /\ handler = "handleChartClick"
    /\ timers = 0 /\ enables = 0 /\ completions = 0

HoverMove ==
    /\ \E param \in HoverEvents : handleCrosshairMove(param, param.price)
    /\ Steady

HoverSpec == HoverInit /\ [][HoverMove]_vars

\* ------------------------------- specification with re-entrant host events
\* The host may deliver a click or a crosshair move from inside a setData
\* call.  A crosshair move that reaches a setData call is taken in two
\* steps, up to the call (BeginUpdate) and from the host's answer to the end
\* of the handler (EndUpdate); between the two the host may run the two
\* subscribed handlers.  Every other event is taken whole, and only while no
\* setData call is in progress: the page's own calls and the DOM events do
\* not come from inside the host.
SetDataCalls == { "tempLine.setData", "tempLine.setData throws",
                  "activeLine.setData", "activeLine.setData throws" }

\* the preview branch of handleCrosshairMove is taken (source line 96)
PreviewPending == trendlineMode /\ startPoint # Null /\ tempLine # NoSeries
\* the drag block of handleCrosshairMove is taken (source line 104)
DragPending == isDragging /\ activeLine # NoSeries

\* handleCrosshairMove up to `this.isUpdatingLine = true` in updateTempLine
\* or dragLine
BeginUpdate(param, price) ==
    LET xTs    == ResolveTime(param)
        yPrice == price
        hv     == IF ~ PreviewPending /\ ~ trendlineMode
                  THEN handleHoverEffect(xTs, yPrice)
                  ELSE [hov |-> HoverState(isHovered, cursor, chartOptions,
                                           lineColor, <<>>),
                        selectedPoint |-> selectedPoint]
        callsTemp == /\ PreviewPending
                     /\ updateTempLine(xTs, yPrice, TRUE).calls # <<>>
        callsDrag == /\ DragPending
                     /\ \E visibleRange \in VisibleRanges :
                            isValidLineData(NewLineData(xTs, yPrice,
                                                        hv.selectedPoint,
                                                        visibleRange))
    IN
    /\ ~ isUpdatingLine /\ param.hasPoint
    /\ isValidTime(xTs) /\ isValidPrice(yPrice)
    /\ callsTemp # callsDrag
    /\ handler' = "handleCrosshairMove"
    /\ ret' = "in setData"
    /\ calls' = hv.hov.calls
    /\ lastCrosshairPosition' = [x |-> xTs, y |-> yPrice]
    /\ isHovered' = hv.hov.isHovered
    /\ cursor' = hv.hov.cursor
    /\ chartOptions' = hv.hov.chartOptions
    /\ lineColor' = hv.hov.lineColor
    /\ selectedPoint' = hv.selectedPoint
    /\ isUpdatingLine' = TRUE
    /\ UNCHANGED <<xspan, klines, startPoint, isDragging, dragStartPoint,
                   dragStartLineData, activeLine, tempLine, trendlineMode,
                   series, activeData, tempData>>

\* the host's answer to the setData call in progress, the catch and finally
\* blocks of updateTempLine or dragLine, and the rest of the handler
EndUpdate ==
    LET xTs    == lastCrosshairPosition.x
        yPrice == lastCrosshairPosition.y
    IN
    /\ isUpdatingLine
    /\ \E hostOk \in BOOLEAN : \E revertOk \in HostAnswers(~ hostOk) :
         IF DragPending
         THEN \E visibleRange \in VisibleRanges :
                LET newLineData == NewLineData(xTs, yPrice, selectedPoint,
                                               visibleRange)
                    drg == dragLine(newLineData, hostOk, revertOk)
                IN  /\ isValidLineData(newLineData)
                    /\ activeData' = drg.data
                    /\ calls' = drg.calls
                    /\ UNCHANGED tempData
         ELSE LET tmp == updateTempLine(xTs, yPrice, hostOk)
              IN  /\ tempData' = tmp.data
                  /\ calls' = tmp.calls
                  /\ UNCHANGED activeData
    /\ isUpdatingLine' = FALSE
    /\ handler' = "handleCrosshairMove"
    /\ ret' = "undefined"
    /\ UNCHANGED <<xspan, klines, startPoint, isHovered, isDragging,
                   dragStartPoint, dragStartLineData, lastCrosshairPosition,
                   selectedPoint, activeLine, tempLine, trendlineMode,
                   series, lineColor, chartOptions, cursor>>

HandleBeginUpdate ==
    \E param \in ValidMoveEvents :
        Followed(param) /\ BeginUpdate(param, param.price)

\* a crosshair move that returns without a setData call
HandleQuietMove ==
    /\ \E param \in ValidMoveEvents :
          Followed(param) /\ handleCrosshairMove(param, param.price)
    /\ \A i \in DOMAIN calls' : calls'[i] \notin SetDataCalls

\* no setData call is in progress
Idle == ~ isUpdatingLine

\* the host delivers a click / a crosshair move from inside setData
ReenterClick ==
    \E param \in ClickEvents : handleChartClick(param, param.price)
ReenterMove ==
    \E param \in MoveEvents : handleCrosshairMove(param, param.price)

ReentrantNext ==
    \/ Idle /\ SetData /\ Steady
    \/ Idle /\ Loaded /\ HandleChartClick /\ Steady
    \/ Idle /\ Loaded /\ HandleQuietMove /\ Steady
    \/ Idle /\ Loaded /\ HandleBeginUpdate /\ Steady
    \/ isUpdatingLine /\ ReenterClick /\ Steady
    \/ isUpdatingLine /\ ReenterMove /\ Steady
    \/ EndUpdate /\ Steady
    \/ Idle /\ Loaded /\ SetTrendlineMode /\ Steady
    \/ Idle /\ Loaded /\ handleMouseDown /\ Steady
    \/ Idle /\ Loaded /\ handleMouseUp /\ Steady
    \/ Idle /\ Loaded /\ deleteSelectedLine /\ Steady

ReentrantSpec == Init /\ [][ReentrantNext]_vars

\* ------------------------------ specification of the coordinate resolution
\* Events reach the controller before or after setData, with series of two
\* and of four bars; an event carries a time, or only a logical index (the
\* cursor is beyond the last plotted bar).  With four bars the index 2
\* resolves to 100 + 2 * 100.
ResolveBarSets == { <<100, 200>>, <<100, 200, 300, 400>> }
ResolveClicks == { At(150, Px(10)), HostEvent(Undefined, 2, TRUE, Px(20)) }
ResolveMoves == { At(250, Px(15)), HostEvent(Undefined, 2, TRUE, Px(20)) }

ResolveSetData == \E bars \in ResolveBarSets : setData(bars)
ResolveClick ==
    \E param \in ResolveClicks : handleChartClick(param, param.price)
ResolveMove ==
    \E param \in ResolveMoves : handleCrosshairMove(param, param.price)

ResolveNext ==
    \/ ResolveSetData /\ Steady
    \/ ResolveClick /\ Steady
    \/ ResolveMove /\ Steady
    \/ SetTrendlineMode /\ Steady

ResolveSpec == Init /\ [][ResolveNext]_vars

\* ------------------------------------- specification of the drag clamping
\* A line has just been finalized by two clicks on plotted bars, with the
\* bars given to the controller by setData or not, and the user hovers it and
\* drags it in one gesture.  The drags are followed up to MaxTime and MaxPrice but to any
\* distance to the left and downwards, where the translated endpoints leave
\* the valid domain and clampTime and clampPrice replace them.
ClampBarSets == { <<>>, <<100, 200, 300, 400>>, <<0, 100, 200, 300>> }
\* cursor positions: the midpoint and the two endpoints of the line, and
\* positions below, left of and above the midpoint
ClampMoves ==
    { At(250, Px(15)), At(150, Px(10)), At(350, Px(20)),
      At(250, Px(5)), At(50, Px(15)), At(250, Px(20)) }

ClampInit ==
    /\ klines \in ClampBarSets
    /\ xspan = IF Len(klines) >= 3 THEN klines[3] - klines[2] ELSE JsNull
    /\ startPoint = Null
    /\ isUpdatingLine = FALSE
    /\ isHovered = FALSE
    /\ isDragging = FALSE
    /\ dragStartPoint = Null
    /\ dragStartLineData = Null
    /\ lastCrosshairPosition = Null
    /\ selectedPoint = JsNull
    /\ activeLine = 1
    /\ tempLine = NoSeries
    /\ trendlineMode = FALSE
    /\ series = [i \in 1..MaxSeries |-> IF i = 1 THEN "solid" ELSE "absent"]
    /\ activeData = << [time |-> 150, value |-> Px(10)],
                       [time |-> 350, value |-> Px(20)] >>
    /\ tempData = <<>>
    /\ lineColor = "dodgerblue"
    /\ chartOptions = [handleScroll |-> TRUE, handleScale |-> TRUE]
    /\ cursor = "default"
    /\ calls = <<"chart.removeSeries", "chart.addLineSeries",
                 "activeLine.setData", "onTrendlineComplete">>
    /\ ret = "undefined"
    /\ handler = "handleChartClick"
    /\ timers = 0 /\ enables = 0 /\ completions = 0

\* the drags this specification follows
InUpperBounds(lineData) ==
    \A i \in 1..Len(lineData) :
        /\ IsNum(lineData[i].time) /\ IsNum(lineData[i].value)
        /\ lineData[i].time <= MaxTime /\ lineData[i].value <= MaxPrice

ClampMove ==
    \E param \in ClampMoves :
        /\ (isDragging /\ activeLine # NoSeries)
              => InUpperBounds(DragCandidates(param.time, param.price,
                                              selectedPoint))
        /\ handleCrosshairMove(param, param.price)

\* the button goes down once: one drag gesture, from the finalized line
ClampMouseDown == ~ isDragging /\ handleMouseDown

ClampNext ==
    \/ ClampMove /\ Steady
    \/ ClampMouseDown /\ Steady

ClampSpec == ClampInit /\ [][ClampNext]_vars

\* -------------------------------- specification of the refit after delete
\* deleteSelectedLine defers chart.timeScale().fitContent() by setTimeout.
\* This specification follows the scheduled callbacks: the host runs each of
\* them as a step of its own, at any time after the handler that scheduled
\* it has returned.  The user draws, hovers and deletes lines; a delete waits
\* while MaxTimers callbacks are pending.
ScheduledBy(cs) == Cardinality({i \in DOMAIN cs : cs[i] = "setTimeout"})

RefitDelete ==
    /\ canDelete => timers < MaxTimers
    /\ deleteSelectedLine
    /\ timers' = timers + ScheduledBy(calls')
    /\ UNCHANGED <<enables, completions>>

\* the callback `() => { this.chart.timeScale().fitContent(); }`
fitContent ==
    /\ timers > 0
    /\ timers' = timers - 1
    /\ handler' = "setTimeout callback"
    /\ calls' = <<"timeScale.fitContent">>
    /\ ret' = "undefined"
    /\ UNCHANGED <<ctl, host, enables, completions>>

RefitNext ==
    \/ SetData /\ Steady
    \/ Loaded /\ HandleChartClick /\ Steady
    \/ Loaded /\ HandleValidMove /\ Steady
    \/ Loaded /\ SetTrendlineMode /\ Steady
    \/ Loaded /\ RefitDelete
    \/ fitContent

\* the host runs a pending timer callback after its delay
RefitSpec == Init /\ [][RefitNext]_vars /\ WF_vars(fitContent)

\* ------------------------- specification of the lines drawn per enabling
\* The page enables and disables draw mode, the user clicks, hovers and
\* deletes.  enables counts the setTrendlineMode(true) calls and
\* completions the onTrendlineComplete calls; the page stops enabling after
\* MaxEnables calls.
CompletedBy(cs) ==
    Cardinality({i \in DOMAIN cs : cs[i] = "onTrendlineComplete"})

CountEnable ==
    /\ \E enabled \in BOOLEAN :
          /\ enabled => enables < MaxEnables
          /\ setTrendlineMode(enabled)
          /\ enables' = IF enabled THEN enables + 1 ELSE enables
    /\ UNCHANGED <<timers, completions>>

CountClick ==
    /\ HandleChartClick
    /\ completions' = completions + CompletedBy(calls')
    /\ UNCHANGED <<timers, enables>>

CountNext ==
    \/ SetData /\ Steady
    \/ Loaded /\ CountClick
    \/ Loaded /\ CountEnable
    \/ Loaded /\ HandleValidMove /\ Steady
    \/ Loaded /\ deleteSelectedLine /\ Steady

CountSpec == Init /\ [][CountNext]_vars

\* ================================================================= claims
Called(name) == \E i \in DOMAIN calls : calls[i] = name
CountCalls(name) == Cardinality({i \in DOMAIN calls : calls[i] = name})
\* the trendline primitives on the chart
LinesOnChart == OnChart("solid")
\* a coordinate that is NaN, not finite, missing or not positive
InvalidCoordinate(v) == v \in {NaN, Infinity, Undefined, JsNull} \/ v <= 0
\* p is within hoverThreshold percent of q
PriceNear(p, q) == 100 * Abs(p - q) <= q * hoverThreshold
\* the cursor position pos hit-tests endpoint i (0 or 1) of the line data,
\* whatever the time tolerance: it is at the endpoint's time, near its price,
\* and for endpoint 1 not near the price of endpoint 0, which is tested first
HitsEndpoint(i, pos, data) ==
    /\ pos.x = data[i + 1].time
    /\ PriceNear(pos.y, data[i + 1].value)
    /\ i = 1 => ~ PriceNear(pos.y, data[1].value)
\* a price that no visible range of the host clamps
Unclamped(price) ==
    \A r \in VisibleRanges \ {Null} :
        r.from - (r.to - r.from) \div 2 <= price
        /\ price <= r.to + (r.to - r.from) \div 2
\* the last handler was a crosshair move that passed the validity gate
\* while a drag of a two-point line was in progress
DragMoved ==
    /\ handler = "handleCrosshairMove" /\ ret = "undefined"
    /\ isDragging /\ activeLine # NoSeries
    /\ Len(dragStartLineData) = 2 /\ Len(activeData) = 2
\* the snapshot point i translated by the pointer delta
Translated(i) ==
    [time  |-> dragStartLineData[i].time
                 + (lastCrosshairPosition.x - dragStartPoint.x),
     value |-> dragStartLineData[i].value
                 + (lastCrosshairPosition.y - dragStartPoint.y)]

\* C1: a second click that finalizes a draw gesture leaves a trendline whose
\* data has data[0].time < data[1].time, whatever the order of the two clicks.
C1_FinalizedAscending ==
    (handler = "handleChartClick" /\ Called("onTrendlineComplete"))
        => /\ Len(activeData) = 2
           /\ activeData[1].time < activeData[2].time

\* C2: at most one finalized trendline primitive is on the chart, after any
\* number of completed draw gestures.
C2_SingleLine == Cardinality(LinesOnChart) <= 1

\* C3: a crosshair move whose resolved time or price is NaN, not finite or
\* <= 0 changes no controller field and no primitive, and makes no host call.
C3_InvalidMoveIsNoOp ==
    [][ \/ UNCHANGED <<ctl, host>> /\ calls' = <<>>
        \/ handler' # "handleCrosshairMove"
        \/ \A param \in MoveEvents :
              ~ ( /\ param.hasPoint
                  /\ \/ InvalidCoordinate(ResolveTime(param))
                     \/ InvalidCoordinate(param.price)
                  /\ handleCrosshairMove(param, param.price) ) ]_vars

\* an invalid move was rejected while a drag was in progress and while the
\* line was hovered
C3_Witness ==
    /\ handler = "handleCrosshairMove" /\ ret = "return@91"
    /\ isDragging /\ isHovered /\ lastCrosshairPosition # Null

\* C4: in a drag that began with the cursor on endpoint i, every valid
\* crosshair move leaves the other endpoint at its pre-drag time and price
\* (stated for an other endpoint that no visible range clamps).
C4_EndpointDragKeepsOther ==
    DragMoved =>
        \A i \in {0, 1} :
            ( /\ HitsEndpoint(i, dragStartPoint, dragStartLineData)
              /\ Unclamped(dragStartLineData[2 - i].value) )
            => activeData[2 - i] = dragStartLineData[2 - i]

C6_DeleteRejected ==
    [][ ( /\ handler' = "deleteSelectedLine"
          /\ (activeLine = NoSeries \/ isDragging \/ ~ isHovered) )
        => (ret' = "false" /\ calls' = <<>> /\ UNCHANGED <<ctl, host>>) ]_vars

\* a delete was refused during a drag of a hovered line
C6_Witness ==
    /\ handler = "deleteSelectedLine" /\ ret = "false"
    /\ activeLine # NoSeries /\ isHovered /\ isDragging

\* C7: a deleteSelectedLine() that returns true leaves no active line, no
\* start point, no selected point, no hover, pan/zoom enabled, the default
\* cursor, and no preview primitive.
C7_DeleteClearsEverything ==
    (handler = "deleteSelectedLine" /\ ret = "true")
        => /\ activeLine = NoSeries /\ startPoint = Null
           /\ selectedPoint = JsNull /\ ~ isHovered
           /\ chartOptions = [handleScroll |-> TRUE, handleScale |-> TRUE]
           /\ cursor = "default"
           /\ tempLine = NoSeries /\ OnChart("dashed") = {}

\* C8: setTrendlineMode(false) with a start point pending and a temp line
\* present removes the temp primitive from the chart, clears tempLine and
\* startPoint, and leaves the active line and every other primitive alone.
C8_CancelDiscardsPreview ==
    [][ ( /\ handler' = "setTrendlineMode" /\ ~ trendlineMode'
          /\ startPoint # Null /\ tempLine # NoSeries )
        => /\ series' = [series EXCEPT ![tempLine] = "absent"]
           /\ tempLine' = NoSeries /\ startPoint' = Null
           /\ activeLine' = activeLine /\ activeData' = activeData
           /\ LinesOnChart' = LinesOnChart ]_vars

\* a gesture was cancelled: the mode is off, the preview was removed
C8_Witness ==
    /\ handler = "setTrendlineMode" /\ ~ trendlineMode
    /\ calls = <<"chart.removeSeries">>
    /\ tempLine = NoSeries /\ startPoint = Null /\ OnChart("dashed") = {}

\* C9: after setTrendlineMode(true), in whatever state it is called,
\* startPoint is null.
C9_EnableClearsStartPoint ==
    (handler = "setTrendlineMode" /\ trendlineMode) => startPoint = Null

\* C10: the completion callback is invoked only by a chart click, once, as
\* the last call after the line primitive was created and given its data,
\* and then trendlineMode is false and startPoint and selectedPoint are
\* null; every click that gives a new line its data invokes it.
C10_CallbackOncePerLine ==
    /\ Called("onTrendlineComplete")
         => /\ handler = "handleChartClick"
            /\ CountCalls("onTrendlineComplete") = 1
            /\ Len(calls) >= 3
            /\ calls[Len(calls)] = "onTrendlineComplete"
            /\ calls[Len(calls) - 1] = "activeLine.setData"
            /\ calls[Len(calls) - 2] = "chart.addLineSeries"
            /\ Len(activeData) = 2
            /\ ~ trendlineMode
            /\ startPoint = Null /\ selectedPoint = JsNull
    /\ (handler = "handleChartClick" /\ Called("activeLine.setData"))
         => CountCalls("onTrendlineComplete") = 1

\* a second click finalized a line and invoked the callback
C10_Witness ==
    /\ handler = "handleChartClick" /\ Called("onTrendlineComplete")
    /\ activeLine # NoSeries /\ Len(activeData) = 2

\* ------------------------------------------------------ claims C11 - C20
\* the time a click or move event resolves to: the event's own time when it
\* has one, else the first bar's time plus logical index times bar spacing
ClickedTime(param) ==
    IF param.time # Undefined THEN param.time
    ELSE klines[1] + param.logical * xspan
\* the last handler was a crosshair move that ran the hover detection on a
\* two-point line while no drag was in progress; its cursor is
\* lastCrosshairPosition and its result is left in isHovered
HoverTested ==
    /\ handler = "handleCrosshairMove" /\ ret = "undefined"
    /\ ~ trendlineMode /\ ~ isDragging
    /\ activeLine # NoSeries /\ Len(activeData) = 2
\* the cursor is within the time tolerance (5 bars) of endpoint i (0 or 1)
\* and within hoverThreshold percent of its price
WithinTolerance(i) ==
    /\ Abs(lastCrosshairPosition.x - activeData[i + 1].time) <= 5 * xspan
    /\ PriceNear(lastCrosshairPosition.y, activeData[i + 1].value)
\* the cursor time lies within the time range of the line
InTimeRange ==
    LET t1 == activeData[1].time
        t2 == activeData[2].time
    IN  /\ (IF t1 <= t2 THEN t1 ELSE t2) <= lastCrosshairPosition.x
        /\ lastCrosshairPosition.x <= (IF t1 <= t2 THEN t2 ELSE t1)
\* the cursor price is within hoverThreshold percent of the price the line
\* has at the cursor time: with w = |P2.time - P1.time| the interpolated
\* price is e / w, and |p - e/w| * 100 <= (e/w) * hoverThreshold
NearInterpolated ==
    LET P1 == activeData[1]
        P2 == activeData[2]
        w  == Abs(P2.time - P1.time)
        up == IF P2.time >= P1.time THEN 1 ELSE -1
        e  == P1.value * w
              + up * (P2.value - P1.value) * (lastCrosshairPosition.x - P1.time)
    IN  /\ w # 0
        /\ Abs(lastCrosshairPosition.y * w - e) <= (e * hoverThreshold) \div 100

\* C11: the first click of a gesture records the clicked point as the start
\* point, only a click or a reset to null changes it, and a second click at a
\* later time that finalizes the line gives it exactly the data
\* [start point, clicked point].
C11_FinalizedEqualsClicks ==
    [][ /\ startPoint' # startPoint
            => startPoint' = Null \/ handler' = "handleChartClick"
        /\ \A param \in ClickEvents :
              ( /\ handleChartClick(param, param.price)
                /\ trendlineMode /\ ~ isDragging /\ ~ isUpdatingLine )
              => /\ startPoint = Null
                    => startPoint' = [time  |-> ClickedTime(param),
                                      price |-> param.price]
                 /\ ( /\ startPoint # Null
                      /\ Called("onTrendlineComplete")'
                      /\ startPoint.time < ClickedTime(param) )
                    => activeData' =
                         << [time |-> startPoint.time,
                             value |-> startPoint.price],
                            [time |-> ClickedTime(param),
                             value |-> param.price] >> ]_vars

\* clicking (150, 10) and then (350, 20) finalized the scenario line
C11_Witness ==
    /\ handler = "handleChartClick" /\ Called("onTrendlineComplete")
    /\ activeData = << [time |-> 150, value |-> Px(10)],
                       [time |-> 350, value |-> Px(20)] >>

\* C12: when no drag is in progress and the cursor is within the time
\* tolerance and the price tolerance of endpoint i, the hit test returns true
\* and leaves selectedPoint = i.
C12_EndpointHitSelectsIt ==
    HoverTested =>
        \A i \in {0, 1} :
            WithinTolerance(i) => (isHovered /\ selectedPoint = i)

C14_PendingHasPreview ==
    (trendlineMode /\ startPoint # Null)
        => (tempLine # NoSeries /\ series[tempLine] = "dashed")

\* C15: a pending draw gesture never coexists with a hovered or a dragged
\* line, and draw mode never coexists with a drag, so that exactly one of
\* idle, drawing, hovering and dragging is active.
C15_ModesExclusive ==
    LET drawing  == trendlineMode /\ startPoint # Null
        hovering == isHovered /\ ~ isDragging
        dragging == isDragging
    IN  /\ ~ (drawing /\ hovering)
        /\ ~ (drawing /\ dragging)
        /\ ~ (hovering /\ dragging)
        /\ ~ (trendlineMode /\ isDragging)

\* C16: every setData call the host accepted, on the active line or on the
\* temp line, carried two points with valid times and prices in strictly
\* ascending time.
C16_SetDataCarriesValidLine ==
    /\ Called("activeLine.setData")
         => (Len(activeData) = 2 /\ isValidLineData(activeData))
    /\ Called("tempLine.setData")
         => (Len(tempData) = 2 /\ isValidLineData(tempData))

\* C17: a chart click while draw mode is off, or while a line update or a
\* drag is in progress, changes no controller field and no host state, makes
\* no host call and does not invoke the completion callback.
C17_GuardedClickIsNoOp ==
    [][ ( /\ handler' = "handleChartClick"
          /\ (~ trendlineMode \/ isUpdatingLine \/ isDragging) )
        => /\ UNCHANGED <<ctl, host>>
           /\ calls' = <<>>
           /\ ~ Called("onTrendlineComplete")' ]_vars

\* a click was ignored because a drag was in progress, with draw mode on
C17_Witness ==
    /\ handler = "handleChartClick" /\ ret = "return@41"
    /\ trendlineMode /\ isDragging

C19_MouseUpEndsDrag ==
    [][ handler' = "handleMouseUp"
        => /\ ~ isDragging'
           /\ dragStartPoint' = Null
           /\ dragStartLineData' = Null
           /\ selectedPoint' = JsNull
           /\ UNCHANGED <<activeLine, activeData, isHovered, trendlineMode,
                          startPoint, tempLine, lastCrosshairPosition,
                          xspan, klines, isUpdatingLine, host>>
           /\ handler = "handleMouseUp" => UNCHANGED vars ]_vars

\* a mouseup ended a drag that had moved endpoint 1 of the hovered line
C19_Witness ==
    /\ handler = "handleMouseUp" /\ ~ isDragging /\ isHovered
    /\ dragStartPoint = Null /\ dragStartLineData = Null
    /\ Len(activeData) = 2
    /\ activeData[2] = [time |-> 250, value |-> Px(15)]

\* C20: when no drag is in progress and neither endpoint is hit, the hit
\* test leaves selectedPoint null; it returns true only if the cursor time
\* is within the line's time range and the cursor price is within
\* hoverThreshold percent of the interpolated price, and then it does; for a
\* cursor time outside the range it returns false.
C20_SegmentHit ==
    (HoverTested /\ ~ WithinTolerance(0) /\ ~ WithinTolerance(1))
        => /\ selectedPoint = JsNull
           /\ isHovered <=> (InTimeRange /\ NearInterpolated)
           /\ ~ InTimeRange => ~ isHovered

\* the cursor is on the 2 percent boundary above the midpoint of the
\* scenario line, which is hit as a whole
C20_Witness ==
    /\ HoverTested /\ ~ WithinTolerance(0) /\ ~ WithinTolerance(1)
    /\ isHovered /\ selectedPoint = JsNull
    /\ lastCrosshairPosition = [x |-> 250, y |-> 153000]
    /\ activeData = << [time |-> 150, value |-> Px(10)],
                       [time |-> 350, value |-> Px(20)] >>

\* ------------------------------------------------------ claims C21 - C26
ScrollOn  == [handleScroll |-> TRUE, handleScale |-> TRUE]
ScrollOff == [handleScroll |-> FALSE, handleScale |-> FALSE]
\* the points a, b in ascending time
Ascending(a, b) == IF a.time < b.time THEN <<a, b>> ELSE <<b, a>>

C22_PreviewLifecycle ==
    /\ Cardinality(OnChart("dashed")) <= 1
    /\ OnChart("dashed") # {} => startPoint # Null
    /\ OnChart("dashed") \subseteq {tempLine}

\* C23: pan and zoom are disabled exactly when isHovered is true; every step
\* that sets isHovered disables them and sets the pointer cursor, and every
\* step that clears isHovered (hover exit, delete, clear-all) enables them
\* and restores the default cursor.
C23_HoverSideEffects ==
    /\ [] ( /\ isHovered => chartOptions = ScrollOff
            /\ ~ isHovered => chartOptions = ScrollOn )
    /\ [][ /\ (~ isHovered /\ isHovered')
              => /\ chartOptions' = ScrollOff /\ cursor' = "pointer"
                 /\ handler' = "handleCrosshairMove"
           /\ (isHovered /\ ~ isHovered')
              => /\ chartOptions' = ScrollOn /\ cursor' = "default"
                 /\ handler' \in {"handleCrosshairMove", "deleteSelectedLine",
                                  "clearAllTrendlines"} ]_vars

\* a delete of the hovered line re-enabled pan and zoom
C23_Witness ==
    /\ handler = "deleteSelectedLine" /\ ret = "true"
    /\ ~ isHovered /\ chartOptions = ScrollOn /\ cursor = "default"

\* C24: a crosshair move received while draw mode is on changes neither
\* isHovered nor selectedPoint nor the cursor nor the pan/zoom options nor
\* the active line's colour.
C24_NoHoverInDrawMode ==
    [][ (handler' = "handleCrosshairMove" /\ trendlineMode)
        => UNCHANGED <<isHovered, selectedPoint, cursor, chartOptions,
                       lineColor>> ]_vars

\* in draw mode a valid move onto the segment of the line left it unhovered
C24_Witness ==
    /\ handler = "handleCrosshairMove" /\ ret = "undefined"
    /\ trendlineMode /\ ~ isHovered /\ cursor = "default"
    /\ activeLine # NoSeries /\ Len(activeData) = 2
    /\ isNearSegment(lastCrosshairPosition.x, lastCrosshairPosition.y,
                     activeData[1], activeData[2])

\* C25 as stated: when the host throws from setData during a drag update the
\* handler returns normally, the active line is back at the pre-drag
\* snapshot, isUpdatingLine is false and the drag fields are unchanged.
C25_ThrowRevertsToSnapshot ==
    [][ (handler' = "handleCrosshairMove"
         /\ Called("activeLine.setData throws")')
        => /\ ret' = "undefined"
           /\ activeData' = dragStartLineData
           /\ ~ isUpdatingLine'
           /\ UNCHANGED <<isDragging, dragStartPoint, dragStartLineData,
                          selectedPoint>> ]_vars

\* C25 amended: the handler returns normally, isUpdatingLine is false and
\* the drag fields are unchanged; when the snapshot is valid line data the
\* controller calls setData with it, and the line is back at the snapshot if
\* the host accepts that call; when the snapshot is not valid or the host
\* throws again the line keeps the data it had.
C25_ThrowAttemptsRevert ==
    [][ (handler' = "handleCrosshairMove"
         /\ Called("activeLine.setData throws")')
        => /\ ret' = "undefined"
           /\ ~ isUpdatingLine'
           /\ UNCHANGED <<isDragging, dragStartPoint, dragStartLineData,
                          selectedPoint>>
           /\ LET n == Len(calls') IN
              IF isValidLineData(dragStartLineData)
              THEN /\ n >= 2
                   /\ calls'[n - 1] = "activeLine.setData throws"
                   /\ \/ /\ calls'[n] = "activeLine.setData"
                         /\ activeData' = dragStartLineData
                      \/ /\ calls'[n] = "activeLine.setData throws"
                         /\ activeData' = activeData
              ELSE /\ calls'[n] = "activeLine.setData throws"
                   /\ CountCalls("activeLine.setData throws")' = 1
                   /\ ~ Called("activeLine.setData")'
                   /\ activeData' = activeData ]_vars

\* a drag update was rejected and the line reverted to its snapshot, away
\* from where an earlier update had put it
C25_Witness ==
    /\ handler = "handleCrosshairMove" /\ ret = "undefined"
    /\ Called("activeLine.setData throws") /\ Called("activeLine.setData")
    /\ isDragging /\ ~ isUpdatingLine
    /\ activeData = dragStartLineData
    /\ lastCrosshairPosition # dragStartPoint

\* C26: no handler lets a host error propagate, and an active line always
\* has its two points.
C26_HostRejectionCaught ==
    /\ ret # "throws"
    /\ activeLine # NoSeries => Len(activeData) = 2

\* ------------------------------------------------------ claims C27 - C30
\* C27: isUpdatingLine is true only while a setData call of a preview or
\* drag update is in progress: it is set on entering that call, it is false
\* after every handler that was not delivered from inside the call, and the
\* return of the call clears it, also when the host threw; a click or a
\* crosshair move delivered while it is true returns at its guard, changes
\* no controller or host state and makes no call.
C27_ReentrancyGuard ==
    /\ [] ( /\ isUpdatingLine
               => /\ PreviewPending \/ DragPending
                  /\ \/ ret = "in setData"
                     \/ handler = "handleChartClick" /\ ret = "return@41"
                     \/ handler = "handleCrosshairMove" /\ ret = "return@84"
            /\ ret = "in setData" => isUpdatingLine )
    /\ [][ /\ (~ isUpdatingLine /\ isUpdatingLine')
              => handler' = "handleCrosshairMove" /\ ret' = "in setData"
           /\ (isUpdatingLine /\ isUpdatingLine')
              => /\ UNCHANGED <<ctl, host>>
                 /\ calls' = <<>>
                 /\ ret' \in {"return@41", "return@84"}
           /\ (isUpdatingLine /\ ~ isUpdatingLine')
              => /\ handler' = "handleCrosshairMove" /\ ret' = "undefined"
                 /\ calls' # <<>>
                 /\ \A i \in DOMAIN calls' : calls'[i] \in SetDataCalls
                 /\ UNCHANGED <<startPoint, trendlineMode, isDragging,
                                activeLine, tempLine, series>> ]_vars

\* during a preview update, with draw mode on and no drag, the host delivered
\* a click and the click returned at its guard
C27_Witness ==
    /\ isUpdatingLine /\ handler = "handleChartClick" /\ ret = "return@41"
    /\ trendlineMode /\ ~ isDragging /\ startPoint # Null
    /\ tempLine # NoSeries

\* C28: setData leaves xspan at the third bar's time minus the second's; a
\* start point, a cursor position and the points of the preview and of the
\* line have valid times, so an event whose time resolves to an invalid value
\* produces none of them.
C28_CoordinateResolution ==
    /\ Len(klines) >= 3 => xspan = klines[3] - klines[2]
    /\ startPoint # Null => isValidTime(startPoint.time)
    /\ lastCrosshairPosition # Null => isValidTime(lastCrosshairPosition.x)
    /\ \A i \in 1..Len(tempData) : isValidTime(tempData[i].time)
    /\ \A i \in 1..Len(activeData) : isValidTime(activeData[i].time)

\* a crosshair move has reached the drag block of handleCrosshairMove
DragUpdate ==
    /\ handler' = "handleCrosshairMove" /\ ret' = "undefined"
    /\ isDragging /\ activeLine # NoSeries
\* the host accepted the new line data of the drag update
DragAccepted ==
    /\ Called("activeLine.setData")
    /\ ~ Called("activeLine.setData throws")
\* the translated endpoints of the drag update, before clamping
Candidates ==
    DragCandidates(lastCrosshairPosition'.x, lastCrosshairPosition'.y,
                   selectedPoint)

\* the price C29 gives for a candidate: within the visible range expanded by
\* half its span, and not below the epsilon
ClaimedPrice(price, visibleRange) ==
    IF visibleRange = Null THEN JsMax(PriceEps, price)
    ELSE LET buffer == (visibleRange.to - visibleRange.from) \div 2
         IN  JsMax(PriceEps, JsMax(visibleRange.from - buffer,
                                   JsMin(visibleRange.to + buffer, price)))

\* C29: every price a drag update pushes to the active line is the candidate
\* price when that lies in the visible range expanded by the buffer, the
\* nearer expanded bound when it lies outside, and at least the epsilon; a
\* non-positive candidate becomes the epsilon when the host reports no range.
C29_PriceClamp ==
    [][ (DragUpdate /\ DragAccepted')
        => \E visibleRange \in VisibleRanges :
             \A i \in 1..Len(activeData') :
                activeData'[i].value
                  = ClaimedPrice(Candidates[i].value, visibleRange) ]_vars

\* candidate times: not a number, not finite, zero, negative, before the
\* first bar, on the bars and after the last bar
CandidateTimes == {NaN, Infinity, 0, -50, 50, 150, 500}

\* C30 as stated: clampTime replaces an invalid candidate time by the first
\* bar's time and returns a valid one unchanged.
C30_InvalidTimeToFirstBar ==
    \A t \in CandidateTimes :
        clampTime(t) = IF isValidTime(t) THEN t ELSE FirstBarTime

\* the time C30 amended gives for a candidate
ExpectedTime(t) ==
    IF isValidTime(t) THEN t
    ELSE IF klines # <<>> /\ klines[1] # 0 THEN klines[1]
    ELSE NowSec

\* C30 amended: clampTime returns a valid candidate time unchanged, also one
\* outside the bars, and replaces an invalid one by the first bar's time
\* when bars are loaded and that time is not zero, and by the current time
\* in seconds otherwise; a drag update pushes the endpoints at exactly these
\* times when they are in ascending order and makes no setData call when
\* they are not.
C30_TimeClamp ==
    /\ [] ( \A t \in CandidateTimes : clampTime(t) = ExpectedTime(t) )
    /\ [][ DragUpdate
           => LET t1 == ExpectedTime(Candidates[1].time)
                  t2 == ExpectedTime(Candidates[2].time)
              IN  IF t1 < t2
                  THEN /\ CountCalls("activeLine.setData")'
                            + CountCalls("activeLine.setData throws")' >= 1
                       /\ DragAccepted'
                            => /\ activeData'[1].time = t1
                               /\ activeData'[2].time = t2
                  ELSE /\ ~ Called("activeLine.setData")'
                       /\ ~ Called("activeLine.setData throws")'
                       /\ activeData' = activeData ]_vars

\* the line (150, 10) - (350, 20), grabbed at its midpoint and dragged to
\* time 50, has its first endpoint at the first bar's time
C30_Witness ==
    /\ handler = "handleCrosshairMove" /\ isDragging /\ DragAccepted
    /\ selectedPoint = JsNull
    /\ dragStartPoint.x = 250 /\ lastCrosshairPosition.x = 50
    /\ klines # <<>> /\ activeData[1].time = klines[1]
    /\ activeData[2].time = 150

\* ------------------------------------------------------ claims C31 - C39
\* two valid points in strictly ascending time
WellFormed(lineData) ==
    /\ Len(lineData) = 2
    /\ \A i \in 1..2 : /\ IsNum(lineData[i].time) /\ lineData[i].time > 0
                       /\ IsNum(lineData[i].value) /\ lineData[i].value > 0
    /\ lineData[1].time < lineData[2].time

\* C32: a line that is well-formed when its drag starts is well-formed after
\* every crosshair move of the drag; a move whose clamped endpoint times are
\* equal or reversed makes no setData call and leaves the line's data as it
\* was.
C32_DragKeepsWellFormed ==
    /\ [] ( (isDragging /\ WellFormed(dragStartLineData))
               => WellFormed(activeData) )
    /\ [][ (DragUpdate /\ WellFormed(dragStartLineData))
           => /\ WellFormed(activeData')
              /\ ExpectedTime(Candidates[1].time)
                    >= ExpectedTime(Candidates[2].time)
                 => /\ ~ Called("activeLine.setData")'
                    /\ ~ Called("activeLine.setData throws")'
                    /\ activeData' = activeData ]_vars

\* the second endpoint of the line (150, 10) - (350, 20) was dragged to time
\* 50, across the first one, and the line stayed where it was
C32_Witness ==
    /\ handler = "handleCrosshairMove" /\ ret = "undefined"
    /\ isDragging /\ selectedPoint = 1
    /\ lastCrosshairPosition.x = 50
    /\ ~ Called("activeLine.setData")
    /\ activeData = << [time |-> 150, value |-> Px(10)],
                       [time |-> 350, value |-> Px(20)] >>

\* C33: a drag in progress implies the hover state; a crosshair move received
\* during a drag leaves isHovered true and selectedPoint as it was.
C33_DraggingImpliesHovered ==
    /\ [] ( isDragging => isHovered )
    /\ [][ (isDragging /\ handler' = "handleCrosshairMove")
           => /\ isHovered'
              /\ selectedPoint' = selectedPoint ]_vars

\* a drag move took the cursor to (350, 20), onto the second endpoint of the
\* line as it was grabbed, and the whole line is still selected
C33_Witness ==
    /\ handler = "handleCrosshairMove" /\ ret = "undefined"
    /\ isDragging /\ isHovered /\ selectedPoint = JsNull
    /\ dragStartPoint = [x |-> 250, y |-> Px(15)]
    /\ lastCrosshairPosition = [x |-> 350, y |-> Px(20)]
    /\ dragStartLineData = << [time |-> 150, value |-> Px(10)],
                              [time |-> 350, value |-> Px(20)] >>

\* C34: the hover state implies an active line; a step that sets activeLine
\* to null (delete, clear-all) leaves isHovered false.
C34_HoveredImpliesLine ==
    /\ [] ( isHovered => activeLine # NoSeries )
    /\ [][ (activeLine # NoSeries /\ activeLine' = NoSeries)
           => /\ ~ isHovered'
              /\ handler' \in {"deleteSelectedLine", "clearAllTrendlines"}
         ]_vars

\* clear-all removed a hovered line
C34_Witness ==
    /\ handler = "clearAllTrendlines" /\ Len(calls) >= 1
    /\ calls[1] = "chart.removeSeries"
    /\ activeLine = NoSeries /\ ~ isHovered /\ cursor = "default"

\* C35: when isHovered is true and no drag is in progress, the active line
\* has its two points and the last recorded crosshair position is within the
\* tolerance of one of its endpoints or on its segment.
C35_HoverMatchesCursor ==
    (isHovered /\ ~ isDragging)
    => /\ lastCrosshairPosition # Null
       /\ activeLine # NoSeries /\ Len(activeData) = 2
       /\ \/ WithinTolerance(0)
          \/ WithinTolerance(1)
          \/ InTimeRange /\ NearInterpolated

\* the snapshot point i (1 or 2) moved by the distance of the cursor from
\* the drag start point, when the whole line or this endpoint is selected
Shifted(i) ==
    LET moves == selectedPoint = JsNull \/ selectedPoint = i - 1
        dx == lastCrosshairPosition'.x - dragStartPoint.x
        dy == lastCrosshairPosition'.y - dragStartPoint.y
    IN  [time  |-> dragStartLineData[i].time + (IF moves THEN dx ELSE 0),
         value |-> dragStartLineData[i].value + (IF moves THEN dy ELSE 0)]
\* the clamping leaves the points of the snapshot as they are
SnapshotInBounds ==
    \A i \in 1..2 : \A visibleRange \in VisibleRanges :
        /\ isValidTime(dragStartLineData[i].time)
        /\ clampPrice(dragStartLineData[i].value, visibleRange)
              = dragStartLineData[i].value

\* C36: the data a drag update pushes is the snapshot moved by the distance
\* of the cursor from the drag start point and clamped, whatever the line's
\* data was before the move; a move back to the drag start point gives the
\* line the data of the snapshot when clamping leaves the snapshot unchanged.
C36_DragFromSnapshot ==
    [][ (DragUpdate /\ DragAccepted' /\ Len(dragStartLineData) = 2)
        => /\ \E visibleRange \in VisibleRanges :
                \A i \in 1..2 :
                   activeData'[i]
                     = [time  |-> ExpectedTime(Shifted(i).time),
                        value |-> clampPrice(Shifted(i).value, visibleRange)]
           /\ (lastCrosshairPosition' = dragStartPoint /\ SnapshotInBounds)
                 => activeData' = dragStartLineData ]_vars

\* the cursor is at the drag start point again and the line, which an earlier
\* move of the drag may have put elsewhere, has the data of the snapshot
C36_Witness ==
    /\ handler = "handleCrosshairMove" /\ isDragging /\ DragAccepted
    /\ lastCrosshairPosition = dragStartPoint
    /\ dragStartPoint = [x |-> 250, y |-> Px(15)]
    /\ activeData = dragStartLineData
    /\ activeData = << [time |-> 150, value |-> Px(10)],
                       [time |-> 350, value |-> Px(20)] >>

\* C37: after a hover test made while no drag is in progress, selectedPoint
\* is 1 only if the cursor is outside the tolerance of endpoint 0 (and within
\* that of endpoint 1), and a cursor within the tolerance of both endpoints
\* leaves selectedPoint = 0.
C37_EndpointPrecedence ==
    HoverTested
    => /\ selectedPoint = 1 => (~ WithinTolerance(0) /\ WithinTolerance(1))
       /\ (WithinTolerance(0) /\ WithinTolerance(1))
             => (isHovered /\ selectedPoint = 0)

\* on the flat line (150, 10) - (350, 10), with a time tolerance of 500, the
\* cursor exactly on endpoint 1 selected endpoint 0
C37_Witness ==
    /\ HoverTested /\ isHovered /\ selectedPoint = 0
    /\ xspan = 100
    /\ lastCrosshairPosition = [x |-> 350, y |-> Px(10)]
    /\ activeData = << [time |-> 150, value |-> Px(10)],
                       [time |-> 350, value |-> Px(10)] >>

\* this.activeLine ? [this.activeLine] : []
getActiveTrendlines == IF activeLine # NoSeries THEN <<activeLine>> ELSE <<>>

\* C39: after clearAllTrendlines no trendline and no preview primitive is on
\* the chart, activeLine, tempLine, startPoint and selectedPoint are null,
\* isHovered and isDragging are false, pan and zoom are enabled,
\* getActiveTrendlines() is empty and the drag fields are null.
C39_ClearAllResets ==
    handler = "clearAllTrendlines"
    => /\ OnChart("solid") = {} /\ OnChart("dashed") = {}
       /\ activeLine = NoSeries /\ tempLine = NoSeries
       /\ startPoint = Null /\ selectedPoint = JsNull
       /\ ~ isHovered /\ ~ isDragging
       /\ chartOptions = ScrollOn
       /\ getActiveTrendlines = <<>>
       /\ dragStartPoint = Null /\ dragStartLineData = Null

\* C38: one line per enabling.  The click that makes the completion callback
\* makes it once, in draw mode, and leaves trendlineMode false; a click while
\* trendlineMode is false sets no start point, creates no primitive and makes
\* no callback; trendlineMode becomes true only by setTrendlineMode(true).
\* The completion callbacks, plus one while draw mode is on, never exceed the
\* setTrendlineMode(true) calls.
C38_OneLinePerEnabling ==
    /\ [](completions + (IF trendlineMode THEN 1 ELSE 0) <= enables)
    /\ [](completions <= enables)
    /\ [][ Called("onTrendlineComplete")'
           => /\ handler' = "handleChartClick"
              /\ CountCalls("onTrendlineComplete")' = 1
              /\ completions' = completions + 1
              /\ trendlineMode /\ ~ trendlineMode' ]_vars
    /\ [][ (handler' = "handleChartClick" /\ ~ trendlineMode)
           => /\ calls' = <<>>
              /\ UNCHANGED <<ctl, host, completions>> ]_vars
    /\ [][ (~ trendlineMode /\ trendlineMode')
           => /\ handler' = "setTrendlineMode"
              /\ enables' = enables + 1 ]_vars

\* a second line has been finalized after draw mode was enabled a second
\* time, and a click after it was ignored
C38_Witness ==
    /\ completions = 2 /\ enables = 2
    /\ handler = "handleChartClick" /\ ret = "return@41"
    /\ ~ trendlineMode /\ ~ isDragging /\ ~ isUpdatingLine
    /\ startPoint = Null /\ tempLine = NoSeries

\* C31: a deleteSelectedLine call that returns true removes the primitive and
\* then schedules one callback, without running the refit itself; one that
\* returns false schedules none and makes no call.  The refit runs only as a
\* scheduled callback, in a step of its own that changes no controller field
\* and no primitive; every scheduled callback runs.
C31_RefitAfterDelete ==
    /\ [][ handler' = "deleteSelectedLine"
           => IF ret' = "true"
              THEN /\ timers' = timers + 1
                   /\ Len(calls') >= 2
                   /\ calls'[1] = "chart.removeSeries"
                   /\ calls'[Len(calls')] = "setTimeout"
                   /\ CountCalls("setTimeout")' = 1
                   /\ ~ Called("timeScale.fitContent")'
                   /\ activeLine # NoSeries /\ series'[activeLine] = "absent"
              ELSE /\ timers' = timers
                   /\ calls' = <<>> ]_vars
    /\ [][ (Called("timeScale.fitContent")' \/ timers' < timers)
           => /\ handler' = "setTimeout callback"
              /\ calls' = <<"timeScale.fitContent">>
              /\ timers > 0 /\ timers' = timers - 1
              /\ UNCHANGED <<ctl, host>> ]_vars
    /\ [][ timers' > timers => handler' = "deleteSelectedLine" ]_vars
    /\ (timers > 0) ~> (handler = "setTimeout callback")

\* the refit of a delete ran after a new draw gesture had begun
C31_Witness ==
    /\ handler = "setTimeout callback" /\ timers = 0
    /\ calls = <<"timeScale.fitContent">>
    /\ activeLine = NoSeries /\ trendlineMode /\ startPoint # Null

====
